---- MODULE Spec2Model ----
(***************************************************************************)
(* Shared SSE connection multiplexer of VUE-SSE.                           *)
(*                                                                         *)
(* Two implementations live in the repository and both are modelled:       *)
(*   - the SharedWorker (public/sharedWorker.js) with the composable that  *)
(*     talks to it over a MessagePort (useSSE in                           *)
(*     node-sse-server/src/index.ts, lines 243-417);                       *)
(*   - the single-context SSEConnectionManager                             *)
(*     (src/composables/useSSE.ts, lines 32-152).                          *)
(* The variable impl says which of the two a behaviour runs.               *)
(***************************************************************************)
EXTENDS Integers, Sequences, FiniteSets, Bags, TLC

(***************************************************************************)
(* Bounds of the model.                                                    *)
(***************************************************************************)
MaxSources == 3      \* EventSource objects constructed in one behaviour
MaxEmit == 1         \* events the origin emits per route
MaxChan == 2         \* messages from the worker in flight on one port
MaxBacklog == 0      \* unread messages a port may hold when the worker takes a step
MaxPost == 1         \* messages to the worker in flight on one port
MaxPending == 1      \* pending reconnect timers
MaxCalls == 3        \* connect / disconnect / disconnectAll calls made by consumers
MaxFaults == 1       \* transport failures
MaxRetryFaults == 2  \* transport failures when one context uses one route
MaxMgrSources == 3   \* EventSource objects one SSEConnectionManager constructs
MaxMgrFaults == 2    \* transport failures seen by one SSEConnectionManager
MaxMgrPending == 2   \* pending reconnect timers of one SSEConnectionManager

Routes == {"/a", "/b"}
BadRoute == "http://:"   \* a URL the EventSource constructor rejects
Ports == {"A", "B"}

(***************************************************************************)
(* EventSource.readyState                                                  *)
(***************************************************************************)
CONNECTING == 0
OPEN == 1
CLOSED == 2

HEARTBEAT_MS == 15000
RECONNECT_MS == 5000

(***************************************************************************)
(* Handlers a consumer may register: a single function, or a handler set.  *)
(***************************************************************************)
NoHandler == [id |-> "undefined", kind |-> "none", events |-> {}]
h1 == [id |-> "h", kind |-> "function", events |-> {}]
h2 == [id |-> "h2", kind |-> "set", events |-> {"message", "open", "error"}]
Handlers == {h1, h2}

AllRoutes == Routes \cup {BadRoute}

\* constructor(initialDelay = 5000, maxDelay = 60000, maxConnections = 6)
DefaultConfig == [initialDelay |-> 5000, maxReconnectDelay |-> 60000, maxConnections |-> 6]
Configs == {DefaultConfig,
            [initialDelay |-> 5000, maxReconnectDelay |-> 8000, maxConnections |-> 1]}

NoStatus == [connected |-> FALSE, reconnectDelay |-> -1, readyState |-> -2]

VARIABLES
  impl,               \* "worker" or "manager"
  scope,              \* the contexts (ports) and the routes the application uses
  \* ---- sharedWorker.js
  connections,        \* Map route -> {eventSource, timeout}, in insertion order
  clients,            \* Set of client ports
  \* ---- the browser: EventSource objects, timers, the origin
  sources,            \* every EventSource constructed so far
  hbTimers,           \* armed heartbeat timeouts: [id, es, delay]
  reconnectTimers,    \* bag of armed reconnect timeouts: [route, handlers, delay]
  emitted,            \* number of events the origin has emitted per route
  \* ---- MessagePort channels
  toWorker,           \* per port: messages posted by the client, not yet handled
  toClient,           \* per port: messages posted by the worker, not yet handled
  \* ---- worker composable (one instance per port)
  worker,             \* per port: "unset", "port" or "null" (worker.value)
  messageHandlers,    \* per port: Map route -> handlers
  connectionStatuses, \* per port: Record route -> ConnectionStatus
  delivered,          \* per port: handler invocations, in order
  \* ---- SSEConnectionManager (one instance)
  config,             \* constructor arguments
  reconnectDelays,    \* Map route -> delay; 0 stands for no entry
  mgrStatuses,        \* connectionStatuses of the manager
  mgrDelivered,       \* handler invocations, in order
  scheduledDelays,    \* per route: delays of the reconnect timers armed since the
                      \* last open or the last connect that created a stream
  \* ---- budgets of the environment
  calls,              \* API calls made so far
  faults,             \* transport failures so far
  \* ---- history
  script              \* how far consumer A has got through connect(/a, h),
                      \* disconnect(/a), connect(/a, h2), called back to back

vars == <<impl, scope, connections, clients, sources, hbTimers, reconnectTimers, emitted,
          toWorker, toClient, worker, messageHandlers, connectionStatuses, delivered,
          config, reconnectDelays, mgrStatuses, mgrDelivered, scheduledDelays,
          calls, faults, script>>

mgrVars == <<config, reconnectDelays, mgrStatuses, mgrDelivered, scheduledDelays>>

----------------------------------------------------------------------------
(***************************************************************************)
(* The Map `connections`: a sequence of entries in insertion order.        *)
(***************************************************************************)
MapHas(m, route) == \E i \in 1..Len(m) : m[i].route = route

MapIndex(m, route) == CHOOSE i \in 1..Len(m) : m[i].route = route

MapGet(m, route) == m[MapIndex(m, route)]

MapSet(m, route, entry) ==
  IF MapHas(m, route)
  THEN [m EXCEPT ![MapIndex(m, route)] = entry]
  ELSE Append(m, entry)

MapDelete(m, route) ==
  IF MapHas(m, route)
  THEN LET k == MapIndex(m, route)
       IN [i \in 1..(Len(m) - 1) |-> IF i < k THEN m[i] ELSE m[i + 1]]
  ELSE m

MapKeys(m) == [i \in 1..Len(m) |-> m[i].route]

(***************************************************************************)
(* The worker's state as one value, so that the functions of               *)
(* sharedWorker.js compose as they call one another.                       *)
(***************************************************************************)
WState ==
  [connections |-> connections, clients |-> clients, sources |-> sources,
   hb |-> hbTimers, rc |-> reconnectTimers, out |-> toClient,
   sched |-> scheduledDelays]

Msg(type, route, data) == [type |-> type, route |-> route, data |-> data]

\* EventSource.close(): readyState becomes CLOSED and no further event is
\* dispatched on the object.
CloseSource(srcs, es) ==
  [srcs EXCEPT ![es] = [@ EXCEPT !.readyState = CLOSED, !.cursor = 0]]

\* A timeout id not in use: no armed timer and no record refers to it.
FreshTimer(w) ==
  LET used == {t.id : t \in w.hb} \cup {w.connections[i].timeout : i \in 1..Len(w.connections)}
  IN CHOOSE n \in 1..(Cardinality(used) + 1) : n \notin used

\* the exception of a port's postMessage ends the forEach
broadcastMessage_Unguarded(w, type, route, data) ==
  IF w.clients \cap scope.throwing # {} THEN w
  ELSE [w EXCEPT !.out = [p \in Ports |->
          IF p \in w.clients THEN Append(w.out[p], Msg(type, route, data)) ELSE w.out[p]]]

\* postMessage of a port in scope.throwing throws; the catch logs it and the
\* forEach goes on with the next port.
broadcastMessage(w, type, route, data) ==
  [w EXCEPT !.out = [p \in Ports |->
      IF p \in w.clients /\ p \notin scope.throwing
      THEN Append(w.out[p], Msg(type, route, data))
      ELSE w.out[p]]]

createEventSource(w, route) ==
  LET es == Len(w.sources) + 1
  IN [w EXCEPT
        !.sources = Append(@, [route |-> route, readyState |-> CONNECTING,
                               cursor |-> 0, handlers |-> NoHandler]),
        !.connections = MapSet(@, route, [route |-> route, eventSource |-> es, timeout |-> 0])]

\* the heartbeat is never armed
resetHeartbeatTimeout_Off(w, route, es) == w

resetHeartbeatTimeout(w, route, es) ==
  IF MapHas(w.connections, route)
  THEN LET connection == MapGet(w.connections, route)
           cleared == {t \in w.hb : t.id # connection.timeout}
           w1 == [w EXCEPT !.hb = cleared]
           id == FreshTimer([w1 EXCEPT !.connections = MapSet(@, route, [connection EXCEPT !.timeout = 0])])
       IN [w1 EXCEPT
             !.hb = cleared \cup {[id |-> id, es |-> es, delay |-> HEARTBEAT_MS]},
             !.connections = MapSet(@, route, [connection EXCEPT !.timeout = id])]
  ELSE w

\* every record is closed and removed with the route's
disconnectRoute_Every(w, route) ==
  IF MapHas(w.connections, route)
  THEN LET w1 == [w EXCEPT
                    !.sources = [i \in DOMAIN @ |-> [@[i] EXCEPT !.readyState = CLOSED]],
                    !.hb = {},
                    !.connections = <<>>]
       IN broadcastMessage(w1, "SSE_DISCONNECTED", route, 0)
  ELSE w

\* the record's heartbeat timer is left armed
disconnectRoute_TimerKept(w, route) ==
  IF MapHas(w.connections, route)
  THEN LET connection == MapGet(w.connections, route)
           w1 == [w EXCEPT
                    !.sources = CloseSource(@, connection.eventSource),
                    !.connections = MapDelete(@, route)]
       IN broadcastMessage(w1, "SSE_DISCONNECTED", route, 0)
  ELSE w

disconnectRoute(w, route) ==
  IF MapHas(w.connections, route)
  THEN LET connection == MapGet(w.connections, route)
           w1 == [w EXCEPT
                    !.sources = CloseSource(@, connection.eventSource),
                    !.hb = {t \in @ : t.id # connection.timeout},
                    !.connections = MapDelete(@, route)]
       IN broadcastMessage(w1, "SSE_DISCONNECTED", route, 0)
  ELSE w

RECURSIVE disconnectEach(_, _)
disconnectEach(w, keys) ==
  IF keys = <<>> THEN w
  ELSE disconnectEach(disconnectRoute(w, Head(keys)), Tail(keys))

disconnectAll(w) == disconnectEach(w, MapKeys(w.connections))

ReconnectTimer(route, handlers, delay) ==
  [route |-> route, handlers |-> handlers, delay |-> delay]

handleReconnect(w, route) ==
  LET w1 == disconnectRoute(w, route)
  IN [w1 EXCEPT !.rc = @ (+) SetToBag({ReconnectTimer(route, NoHandler, RECONNECT_MS)}),
                !.sched[route] = Append(@, RECONNECT_MS)]

\* setTimeout callback of handleReconnect
reconnectCallback(w, route) ==
  createEventSource(broadcastMessage(w, "SSE_RECONNECT", route, 0), route)

\* setTimeout callback of resetHeartbeatTimeout
heartbeatCallback(w, route, es) ==
  handleReconnect([w EXCEPT !.sources = CloseSource(@, es)], route)

onopen(w, route, es) ==
  resetHeartbeatTimeout(broadcastMessage([w EXCEPT !.sched[route] = <<>>],
                                         "SSE_OPEN", route, 0), route, es)

\* the message is posted under another route
onmessage_Misrouted(w, route, es, data) ==
  broadcastMessage(resetHeartbeatTimeout(w, route, es), "SSE_MESSAGE",
                   IF route = "/a" THEN "/b" ELSE "/a", data)

onmessage(w, route, es, data) ==
  broadcastMessage(resetHeartbeatTimeout(w, route, es), "SSE_MESSAGE", route, data)

\* the error is not announced to the clients
onerror_Unannounced(w, route) == handleReconnect(w, route)

onerror(w, route) ==
  handleReconnect(broadcastMessage(w, "SSE_ERROR", route, 0), route)

\* CONNECT handled without looking for an existing record
handleCONNECT_Unchecked(w, route) == createEventSource(w, route)

handleCONNECT(w, route) ==
  IF ~MapHas(w.connections, route)
  THEN createEventSource([w EXCEPT !.sched[route] = <<>>], route)
  ELSE w

portOnMessage(w, m) ==
  CASE m.type = "CONNECT" -> handleCONNECT(w, m.route)
    [] m.type = "DISCONNECT" -> disconnectRoute(w, m.route)
    [] m.type = "DISCONNECT_ALL" -> disconnectAll(w)
    [] OTHER -> w

portOnMessageError(w, port) ==
  LET w1 == [w EXCEPT !.clients = @ \ {port}]
  IN IF w1.clients = {} THEN disconnectAll(w1) ELSE w1

\* The bounds of the model, as a guard on the state an action leads to.
WithinBounds(w) ==
  /\ Len(w.sources) <= MaxSources
  /\ \A p \in Ports : Len(w.out[p]) <= MaxChan
  /\ BagCardinality(w.rc) <= MaxPending

Commit(w) ==
  /\ \A p \in Ports : Len(toClient[p]) <= MaxBacklog
  /\ WithinBounds(w)
  /\ connections' = w.connections
  /\ clients' = w.clients
  /\ sources' = w.sources
  /\ hbTimers' = w.hb
  /\ reconnectTimers' = w.rc
  /\ toClient' = w.out
  /\ scheduledDelays' = w.sched

clientVars == <<worker, messageHandlers, connectionStatuses, delivered,
                config, reconnectDelays, mgrStatuses, mgrDelivered>>

----------------------------------------------------------------------------
(***************************************************************************)
(* Worker-side steps.                                                      *)
(***************************************************************************)
\* self.onconnect, run when a context constructs the SharedWorker
\* (useSSE(), index.ts 260-335); ok = FALSE when SharedWorker is unsupported.
UseSSE(p, ok) ==
  /\ impl = "worker"
  /\ p \in scope.ports
  /\ worker[p] = "unset"
  /\ worker' = [worker EXCEPT ![p] = IF ok THEN "port" ELSE "null"]
  /\ clients' = IF ok THEN clients \cup {p} ELSE clients
  /\ UNCHANGED <<impl, scope, connections, sources, hbTimers, reconnectTimers, emitted,
                 toWorker, toClient, messageHandlers, connectionStatuses, delivered,
                 mgrVars, calls, faults, script>>

WorkerOnMessage(p) ==
  /\ impl = "worker"
  /\ toWorker[p] # <<>>
  /\ Commit(portOnMessage(WState, Head(toWorker[p])))
  /\ toWorker' = [toWorker EXCEPT ![p] = Tail(@)]
  /\ UNCHANGED <<impl, scope, emitted, calls, faults, script>>
  /\ UNCHANGED clientVars

WorkerOnMessageError(p) ==
  /\ impl = "worker"
  /\ p \in clients
  /\ Commit(portOnMessageError(WState, p))
  /\ UNCHANGED <<impl, scope, emitted, toWorker, calls, faults, script>>
  /\ UNCHANGED clientVars

\* The transport opens the stream of EventSource es.
SourceOpen(es) ==
  /\ impl = "worker"
  /\ es \in 1..Len(sources)
  /\ sources[es].readyState = CONNECTING
  /\ LET route == sources[es].route
         w == [WState EXCEPT !.sources[es] =
                 [@ EXCEPT !.readyState = OPEN, !.cursor = emitted[route]]]
     IN Commit(onopen(w, route, es))
  /\ UNCHANGED <<impl, scope, emitted, toWorker, calls, faults, script>>
  /\ UNCHANGED clientVars

\* The transport delivers the next event of the route to EventSource es.
SourceMessage(es) ==
  /\ impl = "worker"
  /\ es \in 1..Len(sources)
  /\ sources[es].readyState = OPEN
  /\ sources[es].cursor < emitted[sources[es].route]
  /\ LET route == sources[es].route
         data == sources[es].cursor + 1
         w == [WState EXCEPT !.sources[es].cursor = data]
     IN Commit(onmessage(w, route, es, data))
  /\ UNCHANGED <<impl, scope, emitted, toWorker, calls, faults, script>>
  /\ UNCHANGED clientVars

\* The transport fails: the browser either retries (CONNECTING) or gives up
\* (CLOSED), and dispatches error.
SourceError(es, rs) ==
  /\ impl = "worker"
  /\ es \in 1..Len(sources)
  /\ sources[es].readyState # CLOSED
  /\ LET route == sources[es].route
         w == [WState EXCEPT !.sources[es] =
                 [@ EXCEPT !.readyState = rs, !.cursor = 0]]
     IN Commit(onerror(w, route))
  /\ faults < scope.faults
  /\ faults' = faults + 1
  /\ UNCHANGED <<impl, scope, emitted, toWorker, calls, script>>
  /\ UNCHANGED clientVars

HeartbeatFire(t) ==
  /\ impl = "worker"
  /\ t \in hbTimers
  /\ LET w == [WState EXCEPT !.hb = @ \ {t}]
     IN Commit(heartbeatCallback(w, sources[t.es].route, t.es))
  /\ UNCHANGED <<impl, scope, emitted, toWorker, calls, faults, script>>
  /\ UNCHANGED clientVars

ReconnectFire(t) ==
  /\ impl = "worker"
  /\ BagIn(t, reconnectTimers)
  /\ LET w == [WState EXCEPT !.rc = @ (-) SetToBag({t})]
     IN Commit(reconnectCallback(w, t.route))
  /\ UNCHANGED <<impl, scope, emitted, toWorker, calls, faults, script>>
  /\ UNCHANGED clientVars

\* The origin server writes one event to every stream of the route.
OriginEmit(route) ==
  /\ route \in scope.routes
  /\ emitted[route] < MaxEmit
  /\ emitted' = [emitted EXCEPT ![route] = @ + 1]
  /\ UNCHANGED <<impl, scope, connections, clients, sources, hbTimers, reconnectTimers,
                 toWorker, toClient, scheduledDelays, calls, faults, script>>
  /\ UNCHANGED clientVars

----------------------------------------------------------------------------
(***************************************************************************)
(* Worker composable (index.ts 260-417), one instance per port.            *)
(***************************************************************************)
CState(p) ==
  [handlers |-> messageHandlers[p], statuses |-> connectionStatuses[p],
   log |-> delivered[p], post |-> toWorker[p]]

updateConnectionStatus(c, route, connected) ==
  [c EXCEPT !.statuses[route] =
     [connected |-> connected,
      reconnectDelay |-> IF connected THEN 0 ELSE 5000,
      readyState |-> IF connected THEN OPEN ELSE CLOSED]]

connect(c, route, handlers) ==
  [c EXCEPT !.handlers[route] = handlers,
            !.post = Append(@, Msg("CONNECT", route, 0))]

\* How connect ends for its caller when worker.value is w: `if (!worker.value)
\* return;`, else the handlers are stored, CONNECT is posted and it returns.
connectOutcome(w) == IF w = "null" THEN "returned" ELSE "returned"

disconnect(c, route) ==
  [c EXCEPT !.handlers[route] = NoHandler,
            !.post = Append(@, Msg("DISCONNECT", route, 0))]

clientDisconnectAll(c) ==
  [c EXCEPT !.handlers = [r \in Routes |-> NoHandler],
            !.post = Append(@, Msg("DISCONNECT_ALL", "", 0))]

Invocation(handler, event, route, data) ==
  [handler |-> handler.id, event |-> event, route |-> route, data |-> data]

onSSE_MESSAGE(c, route, data) ==
  LET handler == c.handlers[route]
  IN IF handler # NoHandler /\ (handler.kind = "function" \/ "message" \in handler.events)
     THEN [c EXCEPT !.log = Append(@, Invocation(handler, "message", route, data))]
     ELSE c

\* the function handler is called for whatever the worker posts
clientOnMessage_CatchAll(c, m) ==
  CASE m.type = "SSE_MESSAGE" -> onSSE_MESSAGE(c, m.route, m.data)
    [] m.type = "SSE_OPEN" ->
         LET handler == c.handlers[m.route]
             c1 == IF handler.kind = "function"
                   THEN [c EXCEPT !.log = Append(@, Invocation(handler, "message", m.route, m.data))]
                   ELSE c
         IN updateConnectionStatus(c1, m.route, TRUE)
    [] m.type \in {"SSE_ERROR", "SSE_DISCONNECTED"} ->
         updateConnectionStatus(c, m.route, FALSE)
    [] m.type = "SSE_RECONNECT" ->
         connect(updateConnectionStatus(c, m.route, FALSE), m.route, c.handlers[m.route])
    [] OTHER -> c

clientOnMessage(c, m) ==
  CASE m.type = "SSE_MESSAGE" -> onSSE_MESSAGE(c, m.route, m.data)
    [] m.type = "SSE_OPEN" -> updateConnectionStatus(c, m.route, TRUE)
    [] m.type \in {"SSE_ERROR", "SSE_DISCONNECTED"} ->
         updateConnectionStatus(c, m.route, FALSE)
    [] m.type = "SSE_RECONNECT" ->
         connect(updateConnectionStatus(c, m.route, FALSE), m.route, c.handlers[m.route])
    [] OTHER -> c

CCommit(p, c) ==
  /\ Len(c.post) <= MaxPost
  /\ messageHandlers' = [messageHandlers EXCEPT ![p] = c.handlers]
  /\ connectionStatuses' = [connectionStatuses EXCEPT ![p] = c.statuses]
  /\ delivered' = [delivered EXCEPT ![p] = c.log]
  /\ toWorker' = [toWorker EXCEPT ![p] = c.post]

workerVars == <<impl, scope, connections, clients, sources, hbTimers, reconnectTimers, emitted,
                mgrVars>>

\* The history variable script: how far consumer A has got through
\* connect(/a, h), disconnect(/a), connect(/a, h2) (stages 1, 2, 3) or through
\* connect(/a, h), connect(/a, h2) (stage 4); whether the calls so far followed
\* one another with nothing of the consumer's context in between; and whether
\* a connect to a route the EventSource constructor rejects has been made
\* while some route had a connection record.
NoScript == [stage |-> 0, prompt |-> TRUE, rejected |-> FALSE]

ScriptReset == [script EXCEPT !.stage = 0, !.prompt = TRUE]

ScriptAfter(p, op, route, handlers) ==
  IF p # "A" THEN script
  ELSE CASE op = "connect" /\ route = "/a" /\ handlers = h1 ->
              [script EXCEPT !.stage = 1, !.prompt = TRUE]
         [] op = "connect" /\ route = "/a" /\ handlers = h2 ->
              IF script.stage = 2 THEN [script EXCEPT !.stage = 3]
              ELSE IF script.stage \in {1, 4} THEN [script EXCEPT !.stage = 4]
              ELSE ScriptReset
         [] op = "connect" /\ route = BadRoute ->
              [script EXCEPT !.rejected = @ \/ connections # <<>>]
         [] op = "disconnect" /\ route = "/a" ->
              IF script.stage = 1 THEN [script EXCEPT !.stage = 2] ELSE ScriptReset
         [] op = "disconnectAll" -> ScriptReset
         [] OTHER -> script

\* A callback of the consumer's context that changes what the calls find runs
\* between two calls of the sequence.
Interrupted == IF script.stage \in {1, 2} THEN [script EXCEPT !.prompt = FALSE] ELSE script

\* One API call of a consumer, counted against the budget.
Call(p, op, route, handlers) ==
  /\ calls < MaxCalls
  /\ calls' = calls + 1
  /\ script' = ScriptAfter(p, op, route, handlers)
  /\ UNCHANGED faults

ApiConnect(p, route, handlers) ==
  /\ impl = "worker"
  /\ route \in scope.routes
  /\ worker[p] # "unset"
  /\ CCommit(p, IF worker[p] = "null" THEN CState(p) ELSE connect(CState(p), route, handlers))
  /\ Call(p, "connect", route, handlers)
  /\ UNCHANGED <<worker, toClient>>
  /\ UNCHANGED workerVars

ApiDisconnect(p, route) ==
  /\ impl = "worker"
  /\ route \in scope.routes
  /\ worker[p] # "unset"
  /\ CCommit(p, IF worker[p] = "null" THEN CState(p) ELSE disconnect(CState(p), route))
  /\ Call(p, "disconnect", route, NoHandler)
  /\ UNCHANGED <<worker, toClient>>
  /\ UNCHANGED workerVars

ApiDisconnectAll(p) ==
  /\ impl = "worker"
  /\ worker[p] # "unset"
  /\ CCommit(p, IF worker[p] = "null" THEN CState(p) ELSE clientDisconnectAll(CState(p)))
  /\ Call(p, "disconnectAll", "", NoHandler)
  /\ UNCHANGED <<worker, toClient>>
  /\ UNCHANGED workerVars

ClientOnMessage(p) ==
  /\ impl = "worker"
  /\ toClient[p] # <<>>
  /\ CCommit(p, clientOnMessage(CState(p), Head(toClient[p])))
  /\ toClient' = [toClient EXCEPT ![p] = Tail(@)]
  /\ script' = IF p = "A" /\ toWorker'[p] # toWorker[p] THEN Interrupted ELSE script
  /\ UNCHANGED <<worker, calls, faults>>
  /\ UNCHANGED workerVars

----------------------------------------------------------------------------
(***************************************************************************)
(* SSEConnectionManager (src/composables/useSSE.ts 38-152).                *)
(* Its Map `connections` holds the EventSource itself; the entries of the  *)
(* variable connections carry timeout = 0 throughout.                      *)
(***************************************************************************)
MState ==
  [connections |-> connections, sources |-> sources, rc |-> reconnectTimers,
   delays |-> reconnectDelays, statuses |-> mgrStatuses, log |-> mgrDelivered,
   sched |-> scheduledDelays]

Min(a, b) == IF a <= b THEN a ELSE b

\* x || y on numbers
OrElse(x, y) == IF x = 0 THEN y ELSE x

Throws(route) == route = BadRoute

mgrUpdateConnectionStatus(m, route) ==
  LET has == MapHas(m.connections, route)
      rs == IF has THEN m.sources[MapGet(m.connections, route).eventSource].readyState
            ELSE -1
  IN [m EXCEPT !.statuses[route] =
        [connected |-> has /\ rs = OPEN,
         reconnectDelay |-> OrElse(m.delays[route], 0),
         readyState |-> IF has THEN OrElse(rs, -1) ELSE -1]]

\* the delay is doubled before the timer is armed
mgrHandleError_DoubledFirst(m, route, handlers) ==
  IF MapHas(m.connections, route)
  THEN LET es == MapGet(m.connections, route).eventSource
           newDelay == Min(OrElse(m.delays[route], config.initialDelay) * 2,
                           config.maxReconnectDelay)
           m1 == [m EXCEPT
                    !.sources = CloseSource(@, es),
                    !.connections = MapDelete(@, route),
                    !.rc = @ (+) SetToBag({ReconnectTimer(route, handlers, newDelay)}),
                    !.sched[route] = Append(@, newDelay),
                    !.delays[route] = newDelay]
       IN mgrUpdateConnectionStatus(m1, route)
  ELSE m

\* the doubled delay is stored without the cap
mgrHandleError_Uncapped(m, route, handlers) ==
  IF MapHas(m.connections, route)
  THEN LET es == MapGet(m.connections, route).eventSource
           currentDelay == OrElse(m.delays[route], config.initialDelay)
           newDelay == currentDelay * 2
           m1 == [m EXCEPT
                    !.sources = CloseSource(@, es),
                    !.connections = MapDelete(@, route),
                    !.rc = @ (+) SetToBag({ReconnectTimer(route, handlers, currentDelay)}),
                    !.sched[route] = Append(@, currentDelay),
                    !.delays[route] = newDelay]
       IN mgrUpdateConnectionStatus(m1, route)
  ELSE m

mgrHandleError(m, route, handlers) ==
  IF MapHas(m.connections, route)
  THEN LET es == MapGet(m.connections, route).eventSource
           currentDelay == OrElse(m.delays[route], config.initialDelay)
           newDelay == Min(currentDelay * 2, config.maxReconnectDelay)
           m1 == [m EXCEPT
                    !.sources = CloseSource(@, es),
                    !.connections = MapDelete(@, route),
                    !.rc = @ (+) SetToBag({ReconnectTimer(route, handlers, currentDelay)}),
                    !.sched[route] = Append(@, currentDelay),
                    !.delays[route] = newDelay]
       IN mgrUpdateConnectionStatus(m1, route)
  ELSE m

\* the delay entry and the status are written before the stream is created
mgrConnect_EntriesFirst(m, route, handlers) ==
  IF Len(m.connections) >= config.maxConnections THEN m
  ELSE IF MapHas(m.connections, route) THEN m
  ELSE LET m0 == mgrUpdateConnectionStatus(
                   [m EXCEPT !.delays[route] = config.initialDelay], route)
       IN IF Throws(route) THEN mgrHandleError(m0, route, handlers)
          ELSE LET es == Len(m.sources) + 1
                   m1 == [m0 EXCEPT
                            !.sources = Append(@, [route |-> route, readyState |-> CONNECTING,
                                                   cursor |-> 0, handlers |-> handlers]),
                            !.connections = MapSet(@, route,
                                                   [route |-> route, eventSource |-> es,
                                                    timeout |-> 0])]
               IN mgrUpdateConnectionStatus(m1, route)

\* the connection limit is not looked at
mgrConnect_Unlimited(m, route, handlers) ==
  IF MapHas(m.connections, route) THEN m
  ELSE IF Throws(route) THEN mgrHandleError(m, route, handlers)
  ELSE LET es == Len(m.sources) + 1
           m1 == [m EXCEPT
                    !.sources = Append(@, [route |-> route, readyState |-> CONNECTING,
                                           cursor |-> 0, handlers |-> handlers]),
                    !.connections = MapSet(@, route,
                                           [route |-> route, eventSource |-> es, timeout |-> 0]),
                    !.delays[route] = config.initialDelay]
       IN mgrUpdateConnectionStatus(m1, route)

\* an existing record of the route is not looked for
mgrConnect_Duplicate(m, route, handlers) ==
  IF Len(m.connections) >= config.maxConnections THEN m
  ELSE IF Throws(route) THEN mgrHandleError(m, route, handlers)
  ELSE LET es == Len(m.sources) + 1
           m1 == [m EXCEPT
                    !.sources = Append(@, [route |-> route, readyState |-> CONNECTING,
                                           cursor |-> 0, handlers |-> handlers]),
                    !.connections = MapSet(@, route,
                                           [route |-> route, eventSource |-> es, timeout |-> 0]),
                    !.delays[route] = config.initialDelay]
       IN mgrUpdateConnectionStatus(m1, route)

\* How SSEConnectionManager.connect ends for its caller: the two early returns,
\* the exception of new EventSource(route) caught by the catch block, which
\* calls handleError and falls through, or the end of the try block.
mgrConnectOutcome(m, route) ==
  IF Len(m.connections) >= config.maxConnections THEN "returned"
  ELSE IF MapHas(m.connections, route) THEN "returned"
  ELSE IF Throws(route) THEN "returned"
  ELSE "returned"

mgrConnect(m, route, handlers) ==
  IF Len(m.connections) >= config.maxConnections THEN m
  ELSE IF MapHas(m.connections, route) THEN m
  ELSE IF Throws(route) THEN mgrHandleError(m, route, handlers)
  ELSE LET es == Len(m.sources) + 1
           m1 == [m EXCEPT
                    !.sources = Append(@, [route |-> route, readyState |-> CONNECTING,
                                           cursor |-> 0, handlers |-> handlers]),
                    !.connections = MapSet(@, route,
                                           [route |-> route, eventSource |-> es, timeout |-> 0]),
                    !.delays[route] = config.initialDelay]
       IN mgrUpdateConnectionStatus(m1, route)

mgrDisconnect(m, route) ==
  IF MapHas(m.connections, route)
  THEN [m EXCEPT
          !.sources = CloseSource(@, MapGet(m.connections, route).eventSource),
          !.connections = MapDelete(@, route),
          !.delays[route] = 0,
          !.statuses[route] = NoStatus]
  ELSE m

RECURSIVE mgrDisconnectEach(_, _)
mgrDisconnectEach(m, keys) ==
  IF keys = <<>> THEN m
  ELSE mgrDisconnectEach(mgrDisconnect(m, Head(keys)), Tail(keys))

mgrDisconnectAll(m) == mgrDisconnectEach(m, MapKeys(m.connections))

\* eventSource.onmessage = handlers, or addEventListener(event, handler) for
\* each entry of the handler set: is a listener of the event registered?
Listens(handlers, event) ==
  \/ handlers.kind = "function" /\ event = "message"
  \/ handlers.kind = "set" /\ event \in handlers.events

Dispatch(m, handlers, event, route, data) ==
  IF Listens(handlers, event)
  THEN [m EXCEPT !.log = Append(@, Invocation(handlers, event, route, data))]
  ELSE m

mgrOnOpen(m, route, handlers) ==
  LET m1 == mgrUpdateConnectionStatus(
              [m EXCEPT !.delays[route] = config.initialDelay, !.sched[route] = <<>>], route)
  IN Dispatch(m1, handlers, "open", route, 0)

mgrOnError(m, route, handlers) ==
  Dispatch(mgrHandleError(m, route, handlers), handlers, "error", route, 0)

MWithinBounds(m) ==
  /\ Len(m.sources) <= MaxMgrSources
  /\ BagCardinality(m.rc) <= MaxMgrPending

MCommit(m) ==
  /\ MWithinBounds(m)
  /\ connections' = m.connections
  /\ sources' = m.sources
  /\ reconnectTimers' = m.rc
  /\ reconnectDelays' = m.delays
  /\ mgrStatuses' = m.statuses
  /\ mgrDelivered' = m.log
  /\ scheduledDelays' = m.sched

mgrFrame == <<impl, scope, config, clients, hbTimers, toWorker, toClient, worker,
              messageHandlers, connectionStatuses, delivered>>

MgrConnect(route, handlers) ==
  /\ impl = "manager"
  /\ route \in scope.routes
  /\ MCommit(LET m == mgrConnect(MState, route, handlers)
             IN IF Len(m.sources) > Len(sources) THEN [m EXCEPT !.sched[route] = <<>>] ELSE m)
  /\ Call("A", "connect", route, handlers)
  /\ UNCHANGED <<mgrFrame, emitted>>

MgrDisconnect(route) ==
  /\ impl = "manager"
  /\ route \in scope.routes
  /\ MCommit([mgrDisconnect(MState, route) EXCEPT !.sched[route] = <<>>])
  /\ Call("A", "disconnect", route, NoHandler)
  /\ UNCHANGED <<mgrFrame, emitted>>

\* disconnectAll(), also run by onUnmounted
MgrDisconnectAll ==
  /\ impl = "manager"
  /\ MCommit([mgrDisconnectAll(MState) EXCEPT !.sched = [r \in AllRoutes |-> <<>>]])
  /\ Call("A", "disconnectAll", "", NoHandler)
  /\ UNCHANGED <<mgrFrame, emitted>>

MgrSourceOpen(es) ==
  /\ impl = "manager"
  /\ es \in 1..Len(sources)
  /\ sources[es].readyState = CONNECTING
  /\ LET route == sources[es].route
         m == [MState EXCEPT !.sources[es] =
                 [@ EXCEPT !.readyState = OPEN, !.cursor = emitted[route]]]
     IN MCommit(mgrOnOpen(m, route, sources[es].handlers))
  /\ script' = Interrupted
  /\ UNCHANGED <<mgrFrame, emitted, calls, faults>>

MgrSourceMessage(es) ==
  /\ impl = "manager"
  /\ es \in 1..Len(sources)
  /\ sources[es].readyState = OPEN
  /\ sources[es].cursor < emitted[sources[es].route]
  /\ LET route == sources[es].route
         data == sources[es].cursor + 1
         m == [MState EXCEPT !.sources[es].cursor = data]
     IN MCommit(Dispatch(m, sources[es].handlers, "message", route, data))
  /\ script' = Interrupted
  /\ UNCHANGED <<mgrFrame, emitted, calls, faults>>

MgrSourceError(es, rs) ==
  /\ impl = "manager"
  /\ es \in 1..Len(sources)
  /\ sources[es].readyState # CLOSED
  /\ faults < scope.faults
  /\ LET route == sources[es].route
         m == [MState EXCEPT !.sources[es] =
                 [@ EXCEPT !.readyState = rs, !.cursor = 0]]
     IN MCommit(mgrOnError(m, route, sources[es].handlers))
  /\ faults' = faults + 1
  /\ script' = Interrupted
  /\ UNCHANGED <<mgrFrame, emitted, calls>>

\* setTimeout(() => this.connect(route, handlers), currentDelay) fires
MgrReconnectFire(t) ==
  /\ impl = "manager"
  /\ BagIn(t, reconnectTimers)
  /\ LET m == [MState EXCEPT !.rc = @ (-) SetToBag({t})]
     IN MCommit(mgrConnect(m, t.route, t.handlers))
  /\ script' = Interrupted
  /\ UNCHANGED <<mgrFrame, emitted, calls, faults>>

\* The worker starts when the first context constructs it: the ports of
\* attached are connected, the other contexts have not called useSSE() yet.
InitWorker(ports, routes, maxFaults, attached, throwing) ==
  /\ impl = "worker"
  /\ scope = [ports |-> ports, routes |-> routes, faults |-> maxFaults, throwing |-> throwing]
  /\ connections = <<>>
  /\ clients = attached
  /\ sources = <<>>
  /\ hbTimers = {}
  /\ reconnectTimers = EmptyBag
  /\ emitted = [r \in Routes |-> 0]
  /\ toWorker = [p \in Ports |-> <<>>]
  /\ toClient = [p \in Ports |-> <<>>]
  /\ worker = [p \in Ports |-> IF p \in attached THEN "port" ELSE "unset"]
  /\ messageHandlers = [p \in Ports |-> [r \in Routes |-> NoHandler]]
  /\ connectionStatuses = [p \in Ports |-> [r \in Routes |-> NoStatus]]
  /\ delivered = [p \in Ports |-> <<>>]
  /\ config = DefaultConfig
  /\ reconnectDelays = [r \in AllRoutes |-> 0]
  /\ mgrStatuses = [r \in AllRoutes |-> NoStatus]
  /\ mgrDelivered = <<>>
  /\ scheduledDelays = [r \in AllRoutes |-> <<>>]
  /\ calls = 0
  /\ faults = 0
  /\ script = NoScript

\* Two contexts sharing one route.
InitTabs == InitWorker(Ports, {"/a"}, MaxFaults, {"A"}, {})

\* One context using two routes.
InitRoutes == InitWorker({"A"}, Routes, MaxFaults, {}, {})

\* One context, which has not called useSSE() yet, using one route whose
\* transport may fail repeatedly.
InitRetry == InitWorker({"A"}, {"/a"}, MaxRetryFaults, {}, {})

\* Two contexts sharing one route; postMessage on the port of A throws.
InitIsolation == InitWorker(Ports, {"/a"}, MaxFaults, {"A"}, {"A"})

WorkerNext ==
  \/ \E p \in Ports, ok \in BOOLEAN : UseSSE(p, ok)
  \/ \E p \in Ports : WorkerOnMessage(p)
  \/ \E es \in 1..MaxSources : SourceOpen(es)
  \/ \E es \in 1..MaxSources : SourceMessage(es)
  \/ \E es \in 1..MaxSources, rs \in {CONNECTING, CLOSED} : SourceError(es, rs)
  \/ \E t \in hbTimers : HeartbeatFire(t)
  \/ \E t \in BagToSet(reconnectTimers) : ReconnectFire(t)
  \/ \E r \in Routes : OriginEmit(r)
  \/ \E p \in Ports, r \in Routes, h \in Handlers : ApiConnect(p, r, h)
  \/ \E p \in Ports, r \in Routes : ApiDisconnect(p, r)
  \/ \E p \in Ports : ApiDisconnectAll(p)
  \/ \E p \in Ports : ClientOnMessage(p)

InitManager ==
  /\ impl = "manager"
  /\ scope = [ports |-> {}, routes |-> AllRoutes, faults |-> MaxMgrFaults, throwing |-> {}]
  /\ config \in Configs
  /\ connections = <<>>
  /\ clients = {}
  /\ sources = <<>>
  /\ hbTimers = {}
  /\ reconnectTimers = EmptyBag
  /\ emitted = [r \in Routes |-> 0]
  /\ toWorker = [p \in Ports |-> <<>>]
  /\ toClient = [p \in Ports |-> <<>>]
  /\ worker = [p \in Ports |-> "unset"]
  /\ messageHandlers = [p \in Ports |-> [r \in Routes |-> NoHandler]]
  /\ connectionStatuses = [p \in Ports |-> [r \in Routes |-> NoStatus]]
  /\ delivered = [p \in Ports |-> <<>>]
  /\ reconnectDelays = [r \in AllRoutes |-> 0]
  /\ mgrStatuses = [r \in AllRoutes |-> NoStatus]
  /\ mgrDelivered = <<>>
  /\ scheduledDelays = [r \in AllRoutes |-> <<>>]
  /\ calls = 0
  /\ faults = 0
  /\ script = NoScript

ManagerNext ==
  \/ \E r \in AllRoutes, h \in Handlers : MgrConnect(r, h)
  \/ \E r \in AllRoutes : MgrDisconnect(r)
  \/ MgrDisconnectAll
  \/ \E es \in 1..MaxMgrSources : MgrSourceOpen(es)
  \/ \E es \in 1..MaxMgrSources : MgrSourceMessage(es)
  \/ \E es \in 1..MaxMgrSources, rs \in {CONNECTING, CLOSED} : MgrSourceError(es, rs)
  \/ \E t \in BagToSet(reconnectTimers) : MgrReconnectFire(t)
  \/ \E r \in Routes : OriginEmit(r)

Init == InitTabs \/ InitManager

Next == WorkerNext \/ ManagerNext

\* two contexts sharing one route through the worker
SpecTabs == InitTabs /\ [][WorkerNext]_vars

\* one context using two routes through the worker
SpecRoutes == InitRoutes /\ [][WorkerNext]_vars

\* one context, one route, repeated transport failures
SpecRetry == InitRetry /\ [][WorkerNext]_vars

\* one SSEConnectionManager
SpecManager == InitManager /\ [][ManagerNext]_vars

\* The worker steps together with the message error of a client port.
PortLossNext ==
  \/ WorkerNext
  \/ \E p \in Ports : WorkerOnMessageError(p)

\* two contexts, one of them with a port that cannot be posted to
SpecIsolation == InitIsolation /\ [][WorkerNext]_vars

\* One context, not yet attached, whose port can fail.
SpecPortLoss == InitRetry /\ [][PortLossNext]_vars

\* either implementation, with two routes in use
InitIndependence == InitRoutes \/ InitManager

SpecIndependence == InitIndependence /\ [][Next]_vars

\* either implementation
Spec == Init /\ [][Next]_vars

----------------------------------------------------------------------------
(***************************************************************************)
(* Properties.                                                             *)
(***************************************************************************)
Unclosed(route) ==
  {es \in 1..Len(sources) : sources[es].route = route /\ sources[es].readyState # CLOSED}

HasTimerFor(route) == \E t \in BagToSet(reconnectTimers) : t.route = route

\* C1: in the shared worker, for every route at most one EventSource created
\* for it is still unclosed, in every reachable state.
C1_AtMostOneLiveStream ==
  impl = "worker" => \A r \in Routes : Cardinality(Unclosed(r)) <= 1

\* The worker handles, in this step, the message of the given type that port p
\* posted for the route.
Consumes(p, type, route) ==
  /\ impl = "worker"
  /\ toWorker[p] # <<>>
  /\ Head(toWorker[p]).type = type
  /\ Head(toWorker[p]).route = route
  /\ toWorker'[p] = Tail(toWorker[p])

\* This step constructs an EventSource for the route.
NewSourceFor(route) ==
  /\ Len(sources') > Len(sources)
  /\ sources'[Len(sources')].route = route

\* This step posts a message of the given type for the route to a client.
Posts(type, route) ==
  \E p \in Ports :
    /\ Len(toClient'[p]) > Len(toClient[p])
    /\ \E i \in 1..Len(toClient'[p]) :
         toClient'[p][i].type = type /\ toClient'[p][i].route = route

MessagesOf(log, route) ==
  SelectSeq(log, LAMBDA i : i.event = "message" /\ i.route = route)

\* This step invokes a handler: the invocation appended to the log.
Invoked(log, log2) == IF Len(log2) > Len(log) THEN {log2[Len(log2)]} ELSE {}

\* C2: consumers A and B have both called connect(/a, ...), the worker has
\* handled B's request, A has then called disconnect(/a) and B has not: the
\* worker's handling of A's DISCONNECT neither removes the record of /a nor
\* closes its stream.
C2_DisconnectSparesSharedRoute ==
  [][( /\ Consumes("A", "DISCONNECT", "/a")
       /\ script.stage = 2
       /\ messageHandlers["B"]["/a"] # NoHandler
       /\ toWorker["B"] = <<>>
       /\ MapHas(connections, "/a") )
     => /\ MapHas(connections', "/a")
        /\ MapGet(connections', "/a") = MapGet(connections, "/a")
        /\ sources'[MapGet(connections, "/a").eventSource].readyState # CLOSED]_vars

\* C3: with both consumers subscribed to a route, a consumer's handler is never
\* invoked for an event of the route it was already given, nor for an event
\* older than one it was given: each event at most once, in arrival order.
C3_FanOutOnceInOrder ==
  [][\A p \in Ports, r \in Routes :
       ( /\ impl = "worker"
         /\ \A q \in Ports : messageHandlers[q][r] # NoHandler )
       => \A inv \in Invoked(delivered[p], delivered'[p]) :
            (inv.route = r /\ inv.event = "message")
            => \A i \in 1..Len(MessagesOf(delivered[p], r)) :
                 MessagesOf(delivered[p], r)[i].data < inv.data]_vars

\* C4: the delays given to the reconnect timers of a route for consecutive
\* failures with no successful open in between are initialDelay,
\* 2*initialDelay, 4*initialDelay, ..., each capped at maxDelay.
C4_BackoffDoubles ==
  impl = "manager" =>
    \A r \in Routes : \A i \in 1..Len(scheduledDelays[r]) :
      scheduledDelays[r][i] = Min(config.initialDelay * 2^(i - 1), config.maxReconnectDelay)

\* Consumer A has disconnected /a, no consumer holds a handler for it and no
\* request is on its way to the worker.
Abandoned ==
  /\ script.stage = 2
  /\ \A p \in Ports : messageHandlers[p]["/a"] = NoHandler /\ toWorker[p] = <<>>

\* C5: once the consumer has explicitly disconnected a route, and until a new
\* connect is issued, no EventSource is created for the route and no
\* SSE_RECONNECT is broadcast for it.
C5_NoReconnectAfterDisconnect ==
  [][(Abandoned /\ Abandoned')
       => ~NewSourceFor("/a") /\ ~Posts("SSE_RECONNECT", "/a")]_vars

\* C6: disconnectAll() (DISCONNECT_ALL in the worker) leaves no connection
\* record and no armed timer, heartbeat or reconnect.
C6_DisconnectAllLeavesNothing ==
  [][((\E p \in Ports : Consumes(p, "DISCONNECT_ALL", "")) \/ MgrDisconnectAll)
       => /\ connections' = <<>>
          /\ hbTimers' = {}
          /\ BagCardinality(reconnectTimers') = 0]_vars

\* C7: after connect(/a, h) followed immediately by disconnect(/a) and then
\* connect(/a, h2), once the requests are handled no two stream handles of /a
\* are active, and h is not invoked after the disconnect.
C7_OnlySecondHandler ==
  /\ []((script.stage = 3 /\ script.prompt /\ \A p \in Ports : toWorker[p] = <<>>)
          => Cardinality(Unclosed("/a")) <= 1)
  /\ [][(script.stage \in {2, 3} /\ script.prompt)
          => \A inv \in Invoked(delivered["A"], delivered'["A"])
                        \cup Invoked(mgrDelivered, mgrDelivered') :
               ~(inv.route = "/a" /\ inv.handler = h1.id)]_vars

\* C8: a CONNECT / connect for a route that already has a connection record
\* opens no stream, leaves the record and its handle as they are, arms and
\* cancels no timer and broadcasts nothing.
C8_ConnectIdempotent ==
  [][/\ \A p \in Ports, r \in Routes :
          (Consumes(p, "CONNECT", r) /\ MapHas(connections, r))
          => UNCHANGED <<connections, sources, hbTimers, reconnectTimers, toClient>>
     /\ \A r \in AllRoutes :
          ((\E h \in Handlers : MgrConnect(r, h)) /\ MapHas(connections, r))
          => UNCHANGED <<connections, sources, hbTimers, reconnectTimers,
                         reconnectDelays, mgrStatuses, mgrDelivered>>]_vars

\* Both consumers have connected to /a, their requests are handled, nothing
\* failed and no timer fired: the second CONNECT found the record of the first.
C8_Witness ==
  /\ impl = "worker"
  /\ calls = 2
  /\ \A p \in Ports : messageHandlers[p]["/a"] # NoHandler /\ toWorker[p] = <<>>
  /\ Len(sources) = 1
  /\ MapHas(connections, "/a")

C10_StallHandledLikeError ==
  [][\A t \in hbTimers :
       HeartbeatFire(t)
       => LET r == sources[t.es].route
          IN /\ sources'[t.es].readyState = CLOSED
             /\ MapHas(connections, r)
                  => sources'[MapGet(connections, r).eventSource].readyState = CLOSED
             /\ ~MapHas(connections', r)
             /\ \A p \in clients :
                  toClient'[p] = Append(toClient[p], Msg("SSE_DISCONNECTED", r, 0))
             /\ reconnectTimers' = reconnectTimers (+)
                  SetToBag({ReconnectTimer(r, NoHandler, RECONNECT_MS)})]_vars

\* A published status obeys: reconnectDelay > 0 exactly when not connected.
DelayIffDisconnected(status) ==
  status # NoStatus => ((status.reconnectDelay > 0) <=> ~status.connected)

\* C11: every ConnectionStatus published for a route, by the worker composable
\* and by SSEConnectionManager, has reconnectDelay > 0 if and only if connected
\* is false.
C11_DelayIffDisconnected ==
  /\ \A p \in Ports, r \in Routes : DelayIffDisconnected(connectionStatuses[p][r])
  /\ \A r \in AllRoutes : DelayIffDisconnected(mgrStatuses[r])

\* The worker's stream of the route is open.
StreamOpen(route) ==
  /\ MapHas(connections, route)
  /\ sources[MapGet(connections, route).eventSource].readyState = OPEN

\* No message is in flight on any port, in either direction.
Quiet == \A p \in Ports : toWorker[p] = <<>> /\ toClient[p] = <<>>

\* C12: once every in-flight message has been delivered, each consumer that
\* has called connect for a route holds connected = true for it exactly when
\* the worker's stream of the route is open.
C12_StatusSynchronized ==
  (impl = "worker" /\ Quiet)
  => \A p \in Ports, r \in Routes :
       messageHandlers[p][r] # NoHandler
       => (connectionStatuses[p][r].connected <=> StreamOpen(r))

\* The event kind a worker message stands for.
KindOf(type) ==
  CASE type = "SSE_OPEN" -> "open"
    [] type = "SSE_ERROR" -> "error"
    [] type = "SSE_MESSAGE" -> "message"
    [] type = "SSE_DISCONNECTED" -> "close"
    [] OTHER -> "none"

\* C13: a subscriber that registered a handler set has the handler named after
\* the event kind invoked for each SSE_OPEN, SSE_ERROR, SSE_MESSAGE and
\* disconnect of the route, and nothing invoked when that handler is unset.
C13_NamedHandlerInvoked ==
  [][\A p \in Ports :
       (ClientOnMessage(p) /\ KindOf(Head(toClient[p]).type) # "none")
       => LET m == Head(toClient[p])
              handler == messageHandlers[p][m.route]
          IN handler.kind = "set"
             => delivered'[p] =
                  IF KindOf(m.type) \in handler.events
                  THEN Append(delivered[p], Invocation(handler, KindOf(m.type), m.route, m.data))
                  ELSE delivered[p]]_vars

\* C14: in SSEConnectionManager an open stream's route has its reconnect delay
\* at initialDelay, and the failure of a stream that had opened arms its
\* reconnect timer with initialDelay, however many failures came before.
C14_OpenResetsDelay ==
  /\ [](impl = "manager" =>
          \A r \in Routes : StreamOpen(r) => reconnectDelays[r] = config.initialDelay)
  /\ [][\A es \in 1..Len(sources), rs \in {CONNECTING, CLOSED} :
          ( /\ MgrSourceError(es, rs)
            /\ sources[es].readyState = OPEN
            /\ MapHas(connections, sources[es].route) )
          => /\ reconnectTimers' = reconnectTimers (+) SetToBag(
                  {ReconnectTimer(sources[es].route, sources[es].handlers,
                                  config.initialDelay)})
             /\ scheduledDelays'[sources[es].route] = <<config.initialDelay>>]_vars

\* A stream failed, its retry opened and then failed: the second reconnect is
\* pending.
C14_Witness ==
  /\ impl = "manager"
  /\ Len(mgrDelivered) = 3
  /\ mgrDelivered[1].event = "error"
  /\ mgrDelivered[2].event = "open"
  /\ mgrDelivered[3].event = "error"
  /\ \A i \in 1..3 : mgrDelivered[i].route = "/a"
  /\ HasTimerFor("/a")

\* C15: a transport error on the handle a route's record holds posts SSE_ERROR
\* and then SSE_DISCONNECTED to every client, closes the handle, removes the
\* record and arms one reconnect timer of RECONNECT_MS; when that timer fires
\* SSE_RECONNECT is posted to every client and a new handle is created for the
\* route and recorded.
C15_ErrorThenReconnect ==
  [][/\ \A es \in 1..Len(sources), rs \in {CONNECTING, CLOSED} :
          ( /\ SourceError(es, rs)
            /\ MapHas(connections, sources[es].route)
            /\ MapGet(connections, sources[es].route).eventSource = es )
          => LET r == sources[es].route
             IN /\ \A p \in clients :
                     toClient'[p] = toClient[p] \o <<Msg("SSE_ERROR", r, 0),
                                                     Msg("SSE_DISCONNECTED", r, 0)>>
                /\ sources'[es].readyState = CLOSED
                /\ ~MapHas(connections', r)
                /\ reconnectTimers' = reconnectTimers (+)
                     SetToBag({ReconnectTimer(r, NoHandler, RECONNECT_MS)})
     /\ \A t \in BagToSet(reconnectTimers) :
          ReconnectFire(t)
          => /\ \A p \in clients :
                  toClient'[p] = Append(toClient[p], Msg("SSE_RECONNECT", t.route, 0))
             /\ NewSourceFor(t.route)
             /\ sources'[Len(sources')].readyState = CONNECTING
             /\ MapGet(connections', t.route).eventSource = Len(sources')
             /\ reconnectTimers' = reconnectTimers (-) SetToBag({t})]_vars

\* One connect was issued, its stream failed and the reconnect timer has fired:
\* the route's record holds the second handle.
C15_Witness ==
  /\ impl = "worker"
  /\ calls = 1
  /\ faults = 1
  /\ Len(sources) = 2
  /\ sources[1].readyState = CLOSED
  /\ MapHas(connections, "/a")
  /\ MapGet(connections, "/a").eventSource = 2

\* C16: a connect that cannot open its route, because the route is invalid or
\* because the composable has no SharedWorker, ends with an error thrown to its
\* caller.
C16_FailureThrown ==
  [][/\ \A h \in Handlers :
          ( /\ MgrConnect(BadRoute, h)
            /\ Len(connections) < config.maxConnections )
          => mgrConnectOutcome(MState, BadRoute) = "thrown"
     /\ \A p \in Ports, r \in Routes, h \in Handlers :
          (ApiConnect(p, r, h) /\ worker[p] = "null")
          => connectOutcome(worker[p]) = "thrown"]_vars

\* C17: in SSEConnectionManager the route whose stream creation fails never
\* has a record, a delay entry, a status or a reconnect timer, and a connect
\* to it changes no record, stream, timer, delay or status of any route, each
\* time it is tried.
C17_FailedConnectLeavesNothing ==
  /\ [](impl = "manager" =>
          /\ ~MapHas(connections, BadRoute)
          /\ reconnectDelays[BadRoute] = 0
          /\ mgrStatuses[BadRoute] = NoStatus
          /\ ~HasTimerFor(BadRoute))
  /\ [][\A h \in Handlers :
          MgrConnect(BadRoute, h)
          => UNCHANGED <<connections, sources, reconnectTimers, reconnectDelays,
                         mgrStatuses, mgrDelivered>>]_vars

\* A connect to the rejected route was made while a route had a record, the
\* connection limit was not in the way, and /a is open.
C17_Witness ==
  /\ impl = "manager"
  /\ config = DefaultConfig
  /\ script.rejected
  /\ StreamOpen("/a")

\* C18: after connect(/a, h) and then connect(/a, h2) by the same consumer,
\* with no disconnect in between, no event of /a is delivered to h.
C18_LastRegistrationWins ==
  [][script.stage = 4
       => \A inv \in Invoked(delivered["A"], delivered'["A"])
                     \cup Invoked(mgrDelivered, mgrDelivered') :
            ~(inv.route = "/a" /\ inv.handler = h1.id)]_vars

\* C19: while consumer B is subscribed to /a and the worker has handled its
\* request, the worker's handling of consumer A's DISCONNECT_ALL neither
\* removes the record of /a nor closes its stream.
C19_DisconnectAllSparesOthers ==
  [][( /\ Consumes("A", "DISCONNECT_ALL", "")
       /\ messageHandlers["B"]["/a"] # NoHandler
       /\ toWorker["B"] = <<>>
       /\ MapHas(connections, "/a") )
     => /\ MapHas(connections', "/a")
        /\ MapGet(connections', "/a") = MapGet(connections, "/a")
        /\ sources'[MapGet(connections, "/a").eventSource].readyState # CLOSED]_vars

\* C20: the delays of the reconnect timers the worker arms for a route, for
\* failures with no successful open in between, grow: each is larger than the
\* one before.
C20_WorkerBackoffGrows ==
  impl = "worker" =>
    \A r \in Routes : \A i \in 2..Len(scheduledDelays[r]) :
      scheduledDelays[r][i] > scheduledDelays[r][i - 1]

\* C21: in the worker composable a subscriber that registered one function for
\* a route has it invoked once for every SSE_MESSAGE of that route, with the
\* message's data, and not for SSE_OPEN, SSE_ERROR, SSE_DISCONNECTED or
\* SSE_RECONNECT; the function of one route is never invoked for a message of
\* another route, and nothing but the handling of a message the worker posted
\* invokes a handler.
C21_FunctionOnlyForMessages ==
  [][/\ \A p \in Ports :
          ClientOnMessage(p)
          => LET m == Head(toClient[p])
                 handler == messageHandlers[p][m.route]
             IN /\ (handler.kind = "function" /\ m.type = "SSE_MESSAGE")
                   => delivered'[p] =
                        Append(delivered[p], Invocation(handler, "message", m.route, m.data))
                /\ (handler.kind = "function" /\ m.type # "SSE_MESSAGE")
                   => delivered'[p] = delivered[p]
                /\ \A i \in (Len(delivered[p]) + 1)..Len(delivered'[p]) :
                     /\ delivered'[p][i].route = m.route
                     /\ delivered'[p][i].handler = handler.id
     /\ \A p \in Ports :
          delivered'[p] # delivered[p] => ClientOnMessage(p)]_vars

\* Consumer A holds the function for /a and a handler set for /b, its status of
\* /a is connected, and each handler has been invoked once, for its own route.
C21_Witness ==
  /\ impl = "worker"
  /\ messageHandlers["A"]["/a"] = h1
  /\ messageHandlers["A"]["/b"] = h2
  /\ connectionStatuses["A"]["/a"].connected
  /\ Len(delivered["A"]) = 2
  /\ \E i, j \in 1..2 :
       /\ delivered["A"][i] = Invocation(h1, "message", "/a", delivered["A"][i].data)
       /\ delivered["A"][j] = Invocation(h2, "message", "/b", delivered["A"][j].data)

\* C22: the readyState of every ConnectionStatus published by
\* SSEConnectionManager or by the worker composable is CONNECTING, OPEN or
\* CLOSED, and when the manager publishes the status of a route that has a
\* stream handle it is that handle's ready state (CONNECTING right after
\* connect created the handle).
C22_ReadyStateOfHandle ==
  /\ [](/\ \A r \in AllRoutes :
             mgrStatuses[r] # NoStatus
             => mgrStatuses[r].readyState \in {CONNECTING, OPEN, CLOSED}
        /\ \A p \in Ports : \A r \in Routes :
             connectionStatuses[p][r] # NoStatus
             => connectionStatuses[p][r].readyState \in {CONNECTING, OPEN, CLOSED})
  /\ [][\A r \in AllRoutes :
          (impl = "manager" /\ mgrStatuses'[r] # mgrStatuses[r] /\ MapHas(connections', r))
          => mgrStatuses'[r].readyState =
               sources'[MapGet(connections', r).eventSource].readyState]_vars

\* C23: when the worker handles DISCONNECT for a route that has a record, it
\* closes the record's EventSource, cancels the record's heartbeat timer (no
\* armed timer of that EventSource is left), removes the record and posts
\* SSE_DISCONNECTED for the route exactly once to every client port, leaving
\* the other records and the reconnect timers alone; for a route without a
\* record it changes nothing and posts nothing.
C23_CloseRoute ==
  [][\A p \in Ports : \A r \in Routes :
       (WorkerOnMessage(p) /\ Head(toWorker[p]).type = "DISCONNECT"
          /\ Head(toWorker[p]).route = r)
       => IF MapHas(connections, r)
          THEN LET connection == MapGet(connections, r)
               IN /\ sources'[connection.eventSource].readyState = CLOSED
                  /\ hbTimers' = {t \in hbTimers : t.id # connection.timeout}
                  /\ \A t \in hbTimers' : t.es # connection.eventSource
                  /\ connections' = MapDelete(connections, r)
                  /\ reconnectTimers' = reconnectTimers
                  /\ \A q \in Ports :
                       toClient'[q] = IF q \in clients
                                      THEN Append(toClient[q], Msg("SSE_DISCONNECTED", r, 0))
                                      ELSE toClient[q]
          ELSE UNCHANGED <<connections, clients, sources, hbTimers, reconnectTimers,
                           toClient, scheduledDelays>>]_vars

\* Consumer A connected /a, received a message of the stream and disconnected;
\* the worker handled the DISCONNECT: the one EventSource is closed with no
\* fault and no reconnect behind it, no heartbeat timer is armed and the
\* SSE_DISCONNECTED has reached A.
C23_Witness ==
  /\ impl = "worker"
  /\ script.stage = 2
  /\ toWorker["A"] = <<>>
  /\ faults = 0
  /\ Len(sources) = 1
  /\ sources[1].readyState = CLOSED
  /\ connections = <<>>
  /\ hbTimers = {}
  /\ BagCardinality(reconnectTimers) = 0
  /\ Len(delivered["A"]) = 1
  /\ ~connectionStatuses["A"]["/a"].connected
  /\ toClient["A"] = <<>>

\* C24: in the worker, once the EventSource of a route has been superseded by
\* a newer one (the route's record holds a later EventSource), no open,
\* message or error callback of the old one posts anything to the clients or
\* acts on the newer record: the record, the heartbeat timers and the
\* reconnect timers stay as they are.
C24_StaleHandleDiscarded ==
  [][\A es \in 1..Len(sources) :
       LET r == sources[es].route
       IN ( /\ impl = "worker"
            /\ MapHas(connections, r)
            /\ MapGet(connections, r).eventSource > es
            /\ (SourceOpen(es) \/ SourceMessage(es)
                  \/ \E rs \in {CONNECTING, CLOSED} : SourceError(es, rs)) )
          => UNCHANGED <<connections, hbTimers, reconnectTimers, toClient>>]_vars

\* C26: in the worker every route has at most one armed heartbeat timer, a
\* route without a record has none, and every open or message of the
\* EventSource the route's record holds leaves exactly one armed timer for the
\* route, a fresh one of 15 s that the record refers to.
C26_OneHeartbeatPerRoute ==
  /\ [](impl = "worker" =>
         \A r \in Routes :
           LET armed == {t \in hbTimers : sources[t.es].route = r}
           IN /\ Cardinality(armed) <= 1
              /\ ~MapHas(connections, r) => armed = {})
  /\ [][\A es \in 1..Len(sources) :
          LET r == sources[es].route
          IN ( /\ impl = "worker"
               /\ MapHas(connections, r)
               /\ MapGet(connections, r).eventSource = es
               /\ (SourceOpen(es) \/ SourceMessage(es)) )
             => /\ MapHas(connections', r)
                /\ {t \in hbTimers' : sources[t.es].route = r} =
                     {[id |-> MapGet(connections', r).timeout, es |-> es,
                       delay |-> HEARTBEAT_MS]}]_vars

\* C28: a consumer context posts CONNECT for a route only inside its own
\* connect call for that route: handling a message of the worker never posts
\* one, in particular not in a context that holds no handler for the route
\* (it never subscribed to it, or disconnected it).
C28_ConnectOnlyOnRequest ==
  [][\A p \in Ports :
       (ClientOnMessage(p) /\ messageHandlers[p][Head(toClient[p]).route] = NoHandler)
       => toWorker'[p] = toWorker[p]]_vars

\* C27: in SSEConnectionManager the reconnect scheduled after a transport
\* error of a route is not lost: as long as the route has not been
\* disconnected or connected anew by a call since the error, the route has a
\* connection record or a reconnect timer that will create one, whatever
\* connect calls for other routes are made meanwhile.
C27_ReconnectNotLost ==
  impl = "manager" =>
    \A r \in Routes :
      scheduledDelays[r] # <<>> => (MapHas(connections, r) \/ HasTimerFor(r))

\* C30: SSEConnectionManager never holds more than maxConnections connection
\* records or unclosed EventSources, reconnects included, and a connect made
\* while the limit is reached, by a call or by a reconnect timer, creates no
\* EventSource and changes no connection, delay or status entry.
C30_ConnectionLimit ==
  /\ [](impl = "manager" =>
          /\ Len(connections) <= config.maxConnections
          /\ Cardinality({es \in 1..Len(sources) : sources[es].readyState # CLOSED})
               <= config.maxConnections)
  /\ [][( /\ impl = "manager"
          /\ Len(connections) >= config.maxConnections
          /\ \/ \E r \in AllRoutes, h \in Handlers : MgrConnect(r, h)
             \/ \E t \in BagToSet(reconnectTimers) : MgrReconnectFire(t) )
        => UNCHANGED <<connections, sources, reconnectDelays, mgrStatuses, mgrDelivered>>]_vars

\* With a limit of one connection: the stream of /a failed, /b was connected
\* while the reconnect of /a was pending, and the reconnect timer has fired at
\* the limit: /b holds the only record and the only unclosed EventSource.
C30_Witness ==
  /\ impl = "manager"
  /\ config.maxConnections = 1
  /\ faults = 1
  /\ Len(sources) = 2
  /\ sources[1].route = "/a" /\ sources[1].readyState = CLOSED
  /\ sources[2].route = "/b" /\ sources[2].readyState # CLOSED
  /\ MapKeys(connections) = <<"/b">>
  /\ scheduledDelays["/a"] # <<>>
  /\ BagCardinality(reconnectTimers) = 0

\* C29: in the worker, the step that removes the last client port leaves no
\* EventSource unclosed, and while no client port is registered no EventSource
\* is created, unless a port posts a new CONNECT.
C29_NothingWithoutClients ==
  [][/\ \A p \in Ports :
          (WorkerOnMessageError(p) /\ clients' = {})
          => \A r \in Routes : Unclosed(r)' = {}
     /\ (impl = "worker" /\ clients = {} /\ ~(\E p \in Ports : WorkerOnMessage(p)))
        => \A r \in Routes : ~NewSourceFor(r)]_vars

\* C25: when posting an event to one client port fails, the worker still posts
\* the same event to every other client port, and its records and timers are
\* what they would be without the failure: an open or a message of the
\* EventSource a route's record holds is appended once to the channel of every
\* client whose port can be posted to, the record stays, exactly its fresh
\* heartbeat timer is armed and no reconnect is scheduled. A consumer handling
\* an event, whatever its handler does, changes nothing of the worker and
\* nothing of another consumer.
C25_FailureIsolated ==
  [][/\ \A es \in 1..Len(sources) :
          LET r == sources[es].route
              posted == IF SourceOpen(es) THEN Msg("SSE_OPEN", r, 0)
                        ELSE Msg("SSE_MESSAGE", r, sources[es].cursor + 1)
          IN ( /\ impl = "worker"
               /\ MapHas(connections, r)
               /\ MapGet(connections, r).eventSource = es
               /\ (SourceOpen(es) \/ SourceMessage(es)) )
             => /\ \A q \in clients \ scope.throwing :
                     toClient'[q] = Append(toClient[q], posted)
                /\ \A q \in Ports \ (clients \ scope.throwing) :
                     toClient'[q] = toClient[q]
                /\ MapKeys(connections') = MapKeys(connections)
                /\ MapGet(connections', r).eventSource = es
                /\ hbTimers' = {t \in hbTimers : t.id # MapGet(connections, r).timeout}
                                 \cup {[id |-> MapGet(connections', r).timeout, es |-> es,
                                        delay |-> HEARTBEAT_MS]}
                /\ reconnectTimers' = reconnectTimers
                /\ sources'[es].readyState = OPEN
     /\ \A p \in Ports :
          ClientOnMessage(p)
          => /\ UNCHANGED <<connections, clients, sources, hbTimers, reconnectTimers>>
             /\ \A q \in Ports \ {p} :
                  /\ toClient'[q] = toClient[q]
                  /\ delivered'[q] = delivered[q]
                  /\ connectionStatuses'[q] = connectionStatuses[q]]_vars

\* The port of A cannot be posted to and is registered; B has had its handler
\* invoked for a message of /a, and the heartbeat timer of the stream is armed.
C25_Witness ==
  /\ impl = "worker"
  /\ "A" \in clients \cap scope.throwing
  /\ "B" \in clients
  /\ delivered["B"] # <<>>
  /\ StreamOpen("/a")
  /\ hbTimers # {}

\* C31: after SSEConnectionManager.disconnect of a route returns, the manager
\* holds no connection record, no reconnect-delay entry and no status entry
\* for the route, whether the route was connecting, open or waiting to
\* reconnect after an error when disconnect was called.
C31_DisconnectRemovesEntries ==
  [][\A r \in AllRoutes :
       MgrDisconnect(r)
       => /\ ~MapHas(connections', r)
          /\ reconnectDelays'[r] = 0
          /\ mgrStatuses'[r] = NoStatus]_vars

\* C32: in one SSEConnectionManager every route has at most one unclosed
\* EventSource in every reachable state, and it is the one the route's record
\* holds; a reconnect timer that fires for a route the user has connected
\* again meanwhile creates no EventSource.
C32_OneStreamPerRoute ==
  /\ [](impl = "manager" =>
          \A r \in AllRoutes :
            /\ Cardinality(Unclosed(r)) <= 1
            /\ \A es \in Unclosed(r) :
                 MapHas(connections, r) /\ MapGet(connections, r).eventSource = es)
  /\ [][\A t \in BagToSet(reconnectTimers) :
          (MgrReconnectFire(t) /\ MapHas(connections, t.route))
          => UNCHANGED <<connections, sources>>]_vars

\* The stream of /a failed and, while its reconnect timer is still pending,
\* the user's connect has created the second EventSource of /a.
C32_Witness ==
  /\ impl = "manager"
  /\ faults = 1
  /\ Len(sources) = 2
  /\ sources[1].route = "/a" /\ sources[1].readyState = CLOSED
  /\ sources[2].route = "/a" /\ sources[2].readyState # CLOSED
  /\ MapHas(connections, "/a")
  /\ HasTimerFor("/a")

\* C34: in an SSEConnectionManager constructed with 0 < initialDelay <=
\* maxReconnectDelay, every delay stored for a route and the delay of every
\* armed reconnect timer lies between initialDelay and maxReconnectDelay.
C34_DelayWithinRange ==
  (impl = "manager" /\ 0 < config.initialDelay
     /\ config.initialDelay <= config.maxReconnectDelay)
  => /\ \A r \in AllRoutes :
          reconnectDelays[r] # 0
          => /\ config.initialDelay <= reconnectDelays[r]
             /\ reconnectDelays[r] <= config.maxReconnectDelay
     /\ \A t \in BagToSet(reconnectTimers) :
          /\ config.initialDelay <= t.delay
          /\ t.delay <= config.maxReconnectDelay

\* With a cap below twice the initial delay, a failure has stored the capped
\* delay for /a and armed the reconnect timer.
C34_Witness ==
  /\ impl = "manager"
  /\ config.maxReconnectDelay < 2 * config.initialDelay
  /\ reconnectDelays["/a"] = config.maxReconnectDelay
  /\ HasTimerFor("/a")

\* C35: in the shared-worker variant the payload is forwarded as it is: the
\* worker posts every transport message to each client with the data of that
\* message and under the route of the EventSource that received it, the
\* consumer passes the data of the posted message to the handler of the posted
\* message's route, and so every message a handler has received is an event
\* the origin emitted on the route it was delivered under.
C35_PayloadForwarded ==
  /\ [](impl = "worker" =>
          \A p \in Ports : \A i \in 1..Len(delivered[p]) :
            delivered[p][i].event = "message"
            => delivered[p][i].data \in 1..emitted[delivered[p][i].route])
  /\ [][/\ \A es \in 1..Len(sources) :
             SourceMessage(es)
             => \A q \in clients \ scope.throwing :
                  toClient'[q] = Append(toClient[q],
                                        Msg("SSE_MESSAGE", sources[es].route,
                                            sources[es].cursor + 1))
        /\ \A p \in Ports :
             (ClientOnMessage(p) /\ Head(toClient[p]).type = "SSE_MESSAGE")
             => \A i \in (Len(delivered[p]) + 1)..Len(delivered'[p]) :
                  /\ delivered'[p][i].data = Head(toClient[p]).data
                  /\ delivered'[p][i].route = Head(toClient[p]).route]_vars

\* A handler of consumer A has received the event of /b while the origin has
\* emitted nothing on /a.
C35_Witness ==
  /\ impl = "worker"
  /\ emitted["/a"] = 0
  /\ emitted["/b"] = 1
  /\ \E i \in 1..Len(delivered["A"]) :
       /\ delivered["A"][i].event = "message"
       /\ delivered["A"][i].route = "/b"
       /\ delivered["A"][i].data = 1

\* What either implementation holds for a route: its connection record, its
\* armed heartbeat timers, its reconnect delay and its pending reconnect
\* timers.
RouteState(route) ==
  <<IF MapHas(connections, route) THEN {MapGet(connections, route)} ELSE {},
    {t \in hbTimers : sources[t.es].route = route},
    reconnectDelays[route],
    {<<t, CopiesIn(t, reconnectTimers)>> :
       t \in {x \in BagToSet(reconnectTimers) : x.route = route}}>>

\* This step is a transport error, a heartbeat timeout, a reconnect or the
\* handling of a disconnect on the given route.
StepOn(route) ==
  \/ \E es \in 1..Len(sources), rs \in {CONNECTING, CLOSED} :
       /\ sources[es].route = route
       /\ (SourceError(es, rs) \/ MgrSourceError(es, rs))
  \/ \E t \in hbTimers : sources[t.es].route = route /\ HeartbeatFire(t)
  \/ \E t \in BagToSet(reconnectTimers) :
       t.route = route /\ (ReconnectFire(t) \/ MgrReconnectFire(t))
  \/ \E p \in Ports :
       /\ WorkerOnMessage(p)
       /\ Head(toWorker[p]).type = "DISCONNECT"
       /\ Head(toWorker[p]).route = route
  \/ MgrDisconnect(route)

\* C33: in both implementations a transport error, heartbeat timeout,
\* reconnect or disconnect on one route leaves the connection record, the
\* heartbeat timer, the reconnect delay and the pending reconnect timers of
\* every other route as they were.
C33_RoutesIndependent ==
  [][\A r \in Routes : \A s \in Routes \ {r} :
       StepOn(r) => RouteState(s)' = RouteState(s)]_vars

\* The stream of /a has failed and waits to reconnect while /b holds an open
\* stream.
C33_Witness ==
  /\ faults = 1
  /\ ~MapHas(connections, "/a")
  /\ HasTimerFor("/a")
  /\ StreamOpen("/b")

====
